---- MODULE Spec2Model ----
(***************************************************************************)
(* Crop profitability prediction of the farm manager: the "AI" tab of      *)
(* src/app.py (RandomForestRegressor over pd.get_dummies columns) and of   *)
(* the second program of src/Famy.py (a Pipeline of OneHotEncoder and      *)
(* RandomForestRegressor), over the SQLite store smart_farm.db that both   *)
(* share with src/farmlit.py.                                              *)
(*                                                                         *)
(* A Streamlit program runs its whole script on every interaction: one     *)
(* action below is one script run (the form that was submitted, then the   *)
(* AI tab: read the joined records, fit, predict when asked, recommend).   *)
(*                                                                         *)
(* scikit-learn and pandas are libraries outside the repository.  Their    *)
(* behaviour is modelled as documented for current releases:               *)
(*   - an estimator fitted on a DataFrame rejects, at predict time, a      *)
(*     frame whose column names are not the fitted names in the fitted     *)
(*     order (ValueError);                                                 *)
(*   - whether a forest accepts NaN features depends on the release that   *)
(*     is installed: either is possible;                                   *)
(*   - a forest is a bag of fully grown trees, each fitted on a bootstrap  *)
(*     sample drawn from the seed; a tree answers with the target of the   *)
(*     in-bag row closest to the query;                                    *)
(*   - sort_values uses kind='quicksort', which is not stable: rows of     *)
(*     equal key come out in any order.                                    *)
(***************************************************************************)
EXTENDS Integers, Sequences, FiniteSets, TLC

VARIABLES
    variant,        \* which program serves the AI tab: "app" (src/app.py) or "Famy" (src/Famy.py)
    takes_nan,      \* whether the installed scikit-learn forest takes NaN features
    farm_areas,     \* table farm_areas: sequence of [area_id, area_name], in rowid order
    crop_cycles,    \* table crop_cycles: sequence of rows, in rowid order
    df,             \* the DataFrame the last script run read for the AI tab
    fit_outcome,    \* how the last run's fit ended: "none", "trained", "insufficient_data", "fit_failed"
    model,          \* the local `model` of the last script run (None or a fitted estimator)
    request,        \* the prediction the last run was asked for (NoRequest or a scenario)
    pred_outcome,   \* how that prediction ended: "none", "ok", "NoForm", "AttributeError", "ValueError"
    prediction,     \* the predicted profit shown, <<>> when there is none
    predict_calls,  \* the frames handed to model.predict in the last run, in call order
    evaluated,      \* those of them the estimator evaluated (validation passed)
    recommendation, \* the ranking shown by the last run: sequence of [Crop, Predicted_Profit]
    rec_outcome,    \* how the ranking ended: "none", "ok", "NoModel", "ValueError"
    df_columns,     \* the column names of the DataFrame `df` of main() when the run ended
    messages,       \* the st.success / st.warning / st.error texts (and the traceback) the AI tab showed
    runs,           \* per browser session, the script run in progress: its position and its locals
    fit_calls,      \* how many times the last script run called its fitting function
    area_seq,       \* sqlite_sequence of farm_areas: the largest area_id ever given (AUTOINCREMENT)
    area_form       \* the farm-area form the last script run handled, and the text it showed

vars == <<variant, takes_nan, farm_areas, crop_cycles, df, fit_outcome, model, request,
          pred_outcome, prediction, predict_calls, evaluated, recommendation,
          rec_outcome, df_columns, messages, runs, fit_calls, area_seq, area_form>>

store == <<farm_areas, crop_cycles>>
session == <<df, fit_outcome, model, request, pred_outcome, prediction,
             predict_calls, evaluated, recommendation, rec_outcome, df_columns,
             messages, fit_calls>>

-----------------------------------------------------------------------------
(* Bounds of the model and the small sets the inputs are drawn from.       *)

\* rows the crop_cycles table holds at most
MaxCycles == 2
\* seeds an unseeded RandomForestRegressor can draw
NumSeeds == 2
\* browser sessions whose script runs are interleaved
NumSessions == 2
\* area ids the farm_areas table gives out at most
MaxAreaIds == 3
\* trees of the modelled forest (n_estimators in the code)
NumTrees == 2

Variants == {"app", "Famy"}
AreaNames == {"North", "South"}
\* what the "Area Name" text inputs of farmlit.py are tried with ("" is a blank input)
AreaNameInputs == {"", "North", "South"}
Crops == {"Corn", "Wheat"}
\* dates are day numbers; every crop cycle of the model starts on day 2
StartDates == {2}
\* NULL (no harvest date: the column is nullable and the edit form of
\* farmlit.py keeps a missing date missing), a harvest before the start (no
\* form compares the two dates), a harvest after it
NULL == <<>>
HarvestDates == {NULL, <<0>>, <<4>>}
SeedCosts == {0, 2}
\* what each of the fertilizer, labor, equipment and other cost inputs is tried with
OtherCostInputs == {1}
Revenues == {4}
\* what the prediction form's number inputs are tried with
DurationInputs == {-2, 2}
CostInputs == {-2, 2}

\* random_state of the Famy.py forest
random_state == 42
\* min_value of the duration input of the prediction form
min_duration == 1
\* min_value of the cost inputs
min_cost == 0

-----------------------------------------------------------------------------
(* Values.  A nullable number is <<>> (NULL, NaT, NaN) or <<v>>.           *)

NaN == <<>>
IsNaN(x) == x = <<>>
Val(x) == x[1]

\* Python's None for the local `model`; a fitted estimator has fitted = TRUE
None == [fitted |-> FALSE, pipeline |-> FALSE, feature_names_in |-> <<>>,
         categories |-> <<>>, X |-> <<>>, y |-> <<>>, seed |-> 0]

\* a session with no script run in progress.  pc: "idle", "read" (df read),
\* "fitting" (estimator created), "fitted" (model assigned), "done" (ranking
\* shown); building: the estimator inside the fitting function; model: the local
\* `model` of main(); used: the model the recommendation loop evaluated
IdleRun == [pc |-> "idle", df |-> <<>>, building |-> None, model |-> None, used |-> None]

\* no farm-area form was submitted in this script run.  kind: "none", "add",
\* "rename", "delete"; area_id: the row edited (0 for an add); name: the name
\* submitted; text: what st.success / st.error / st.warning showed
NoAreaForm == [kind |-> "none", area_id |-> 0, name |-> "", text |-> ""]

\* no "Predict Profit" click in this script run
NoRequest == [asked |-> FALSE, area_id |-> 0, crop_type |-> "",
              duration |-> 0, total_cost |-> 0]

\* string order of the crop labels (sorted() of the categories)
LexRank(c) == CASE c = "Corn" -> 1 [] c = "Wheat" -> 2

Abs(n) == IF n < 0 THEN -n ELSE n

RECURSIVE Sum(_)
Sum(s) == IF s = <<>> THEN 0 ELSE Head(s) + Sum(Tail(s))

Range(s) == {s[i] : i \in 1..Len(s)}

-----------------------------------------------------------------------------
(* pandas *)

\* Series.unique(): the distinct values in order of first appearance
RECURSIVE unique(_)
unique(s) ==
    IF s = <<>> THEN <<>>
    ELSE <<Head(s)>> \o SelectSeq(unique(Tail(s)), LAMBDA x : x # Head(s))

\* the categories of get_dummies / OneHotEncoder: the distinct labels, sorted
RECURSIVE sorted(_)
sorted(S) ==
    IF S = {} THEN <<>>
    ELSE LET m == CHOOSE c \in S : \A d \in S : LexRank(c) <= LexRank(d)
         IN  <<m>> \o sorted(S \ {m})

\* a sequence of integers, ascending
RECURSIVE SortInts(_)
SortInts(s) ==
    IF s = <<>> THEN <<>>
    ELSE LET i == CHOOSE k \in 1..Len(s) : \A j \in 1..Len(s) : s[k] <= s[j]
         IN  <<s[i]>> \o SortInts([k \in 1..(Len(s) - 1) |-> IF k < i THEN s[k] ELSE s[k + 1]])

\* the values of a column that are not NaN
dropna(col) == SelectSeq(col, LAMBDA x : ~IsNaN(x))

values(col) == [i \in 1..Len(col) |-> Val(col[i])]

\* the median of ascending values: NaN of none, the middle one of an odd count,
\* the mean of the two middle ones of an even count (exact here: the sums of
\* two values of the model are even)
middle(v) ==
    IF Len(v) = 0 THEN NaN
    ELSE IF Len(v) % 2 = 1 THEN <<v[(Len(v) + 1) \div 2]>>
    ELSE <<(v[Len(v) \div 2] + v[Len(v) \div 2 + 1]) \div 2>>

\* Series.median(): NaN is skipped
median(col) == middle(SortInts(values(dropna(col))))

\* the smallest of the values that occur most often
smallest_top(col, S) ==
    CHOOSE a \in S :
        /\ \A b \in S : Cardinality({i \in 1..Len(col) : col[i] = a})
                        >= Cardinality({i \in 1..Len(col) : col[i] = b})
        /\ \A b \in S : Cardinality({i \in 1..Len(col) : col[i] = b})
                        >= Cardinality({i \in 1..Len(col) : col[i] = a}) => a <= b

\* Series.mode()[0]
mode0(col) == smallest_top(col, Range(col))

-----------------------------------------------------------------------------
(* The store and the derived columns *)

\* SELECT cc.*, fa.area_name FROM crop_cycles cc JOIN farm_areas fa
\* ON cc.area_id = fa.area_id: the cycles whose area exists, in rowid order
read_sql(areas, cycles) ==
    SelectSeq(cycles, LAMBDA r : \E i \in 1..Len(areas) : areas[i].area_id = r.area_id)

\* (pd.to_datetime(harvest_date) - pd.to_datetime(start_date)).dt.days
duration_days(r) ==
    IF r.harvest_date = NULL THEN NaN ELSE <<Val(r.harvest_date) - r.start_date>>

\* the sum without the other_costs column
total_cost_without_other(r) ==
    r.seed_cost + r.fertilizer_cost + r.labor_cost + r.equipment_cost

\* df[['seed_cost','fertilizer_cost','labor_cost','equipment_cost','other_costs']].sum(axis=1)
total_cost(r) ==
    r.seed_cost + r.fertilizer_cost + r.labor_cost + r.equipment_cost + r.other_costs

\* df['total_revenue'] - df['total_cost']
profit(r) == r.total_revenue - total_cost(r)

\* the dashboards (tab2 of app.py and of Famy.py, tab3 of farmlit.py):
\* df['total_cost'] = df[[...five cost columns...]].sum(axis=1)
\* df['profit'] = df['total_revenue'] - df['total_cost']
dashboard(d) ==
    [i \in 1..Len(d) |-> [total_cost |-> total_cost(d[i]),
                          profit |-> d[i].total_revenue - total_cost(d[i])]]

crop_types(d) == [i \in 1..Len(d) |-> d[i].crop_type]
area_ids(d) == [i \in 1..Len(d) |-> d[i].area_id]
durations(d) == [i \in 1..Len(d) |-> duration_days(d[i])]
total_costs(d) == [i \in 1..Len(d) |-> <<total_cost(d[i])>>]
\* the target with its rows in reverse order
profits_reversed(d) == [i \in 1..Len(d) |-> profit(d[Len(d) + 1 - i])]
profits(d) == [i \in 1..Len(d) |-> profit(d[i])]

\* df[['area_id','crop_type',<duration>,'total_cost']]: one record per row
features(d) ==
    [i \in 1..Len(d) |->
        [area_id |-> <<d[i].area_id>>, crop_type |-> d[i].crop_type,
         duration |-> duration_days(d[i]), total_cost |-> <<total_cost(d[i])>>]]

\* the one-row frame of a scenario, before encoding
scenario(area, crop, duration, cost) ==
    [area_id |-> <<area>>, crop_type |-> crop, duration |-> duration, total_cost |-> cost]

-----------------------------------------------------------------------------
(* Encoding.  A frame is [columns, rows]: the column names in order and,   *)
(* per row, the cells in that order.                                       *)

\* the indicator cells of one label over the categories cats
indicators(cats, label) ==
    [k \in 1..Len(cats) |-> IF label = cats[k] THEN <<1>> ELSE <<0>>]

\* the frame of get_dummies for the categories cats
dummies_frame(raw, cats) ==
    [columns |-> <<"area_id", "duration_days", "total_cost">>
                 \o [k \in 1..Len(cats) |-> "crop_type_" \o cats[k]],
     rows    |-> [i \in 1..Len(raw) |->
                    <<raw[i].area_id, raw[i].duration, raw[i].total_cost>>
                    \o indicators(cats, raw[i].crop_type)]]

\* pd.get_dummies(X, columns=['crop_type']): the other columns stay in place,
\* then one indicator per category, the categories sorted
get_dummies(raw) ==
    dummies_frame(raw, sorted(Range([i \in 1..Len(raw) |-> raw[i].crop_type])))

\* frame[col] = 1 unless the column is there
with_column_one(frame, col) ==
    IF col \in Range(frame.columns) THEN frame
    ELSE [columns |-> Append(frame.columns, col),
          rows    |-> [i \in 1..Len(frame.rows) |-> Append(frame.rows[i], <<1>>)]]

\* frame[col] = 0 unless the column is there
with_column(frame, col) ==
    IF col \in Range(frame.columns) THEN frame
    ELSE [columns |-> Append(frame.columns, col),
          rows    |-> [i \in 1..Len(frame.rows) |-> Append(frame.rows[i], <<0>>)]]

\* for col in df['crop_type'].unique():
\*     if f'crop_type_{col}' not in frame.columns: frame[f'crop_type_{col}'] = 0
RECURSIVE add_missing_columns(_, _)
add_missing_columns(frame, crops) ==
    IF crops = <<>> THEN frame
    ELSE add_missing_columns(with_column(frame, "crop_type_" \o Head(crops)), Tail(crops))

\* the frame the app.py variant hands to model.predict for a scenario
app_scenario_frame(crops, sc) == add_missing_columns(get_dummies(<<sc>>), crops)

\* the frame the Famy.py variant hands to the pipeline: the raw columns
raw_frame(raw) ==
    [columns |-> <<"area_id", "crop_type", "duration", "total_cost">>,
     rows    |-> [i \in 1..Len(raw) |->
                    <<raw[i].area_id, raw[i].crop_type, raw[i].duration, raw[i].total_cost>>]]

\* ColumnTransformer([('cat', OneHotEncoder(handle_unknown='ignore'), ['crop_type'])],
\* remainder='passthrough'): the indicators of the fitted categories first (all 0
\* for an unknown label), then the remaining columns
transform(cats, row) == indicators(cats, row[2]) \o <<row[1], row[3], row[4]>>

-----------------------------------------------------------------------------
(* scikit-learn: the forest *)

has_nan(rows) == \E i \in 1..Len(rows) : \E k \in 1..Len(rows[i]) : IsNaN(rows[i][k])

\* distance of two encoded cells (a missing value is a value of its own)
CellDistance(a, b) ==
    IF IsNaN(a) /\ IsNaN(b) THEN 0
    ELSE IF IsNaN(a) \/ IsNaN(b) THEN 1
    ELSE Abs(Val(a) - Val(b))

\* distance of two encoded rows of the same width
Distance(a, b) == Sum([k \in 1..Len(a) |-> CellDistance(a[k], b[k])])

\* the bootstrap sample of tree t over n rows, as a function of the seed: all
\* rows, or all but one
InBag(seed, t, n) == IF n = 1 THEN {1} ELSE (1..n) \ {(seed + t - 1) % (n + 1)}

\* the in-bag row closest to the query, the first of several
nearest(bag, dist) ==
    CHOOSE a \in bag : \A b \in bag : dist[a] < dist[b] \/ (dist[a] = dist[b] /\ a <= b)

\* a fully grown tree: the target of the in-bag row closest to the query
TreePredict(y, bag, dist) == y[nearest(bag, dist)]

\* the forest over the distances of the query to the fitted rows: the mean of
\* its trees
ForestMean(m, dist) ==
    Sum([t \in 1..NumTrees |-> TreePredict(m.y, InBag(m.seed, t, Len(m.X)), dist)])
        \div NumTrees

ForestPredict(m, q) == ForestMean(m, [a \in 1..Len(m.X) |-> Distance(m.X[a], q)])

\* model.fit(X, y) of RandomForestRegressor on the get_dummies frame
forest_fit(frame, y, seed) ==
    [fitted |-> TRUE, pipeline |-> FALSE, feature_names_in |-> frame.columns,
     categories |-> <<>>, X |-> frame.rows, y |-> y, seed |-> seed]

\* the fitted pipeline for the categories the encoder learned
pipeline_with(frame, cats, y, seed) ==
    [fitted |-> TRUE, pipeline |-> TRUE, feature_names_in |-> frame.columns,
     categories |-> cats,
     X |-> [i \in 1..Len(frame.rows) |-> transform(cats, frame.rows[i])],
     y |-> y, seed |-> seed]

\* model.fit(X, y) of the Pipeline: the encoder learns the sorted categories,
\* the forest is fitted on the encoded rows
pipeline_fit(frame, y, seed) ==
    pipeline_with(frame,
                  sorted(Range([i \in 1..Len(frame.rows) |-> frame.rows[i][2]])), y, seed)

\* the row of a frame as the forest sees it
encoded(m, row) == IF m.pipeline THEN transform(m.categories, row) ELSE row

\* model.predict(frame) raises ValueError: the feature names are not the fitted
\* ones in the fitted order, or the row holds NaN and the forest was fitted
\* without any (by a release that may not take NaN)
predict_raises(m, frame) ==
    \/ frame.columns # m.feature_names_in
    \/ has_nan(<<encoded(m, frame.rows[1])>>) /\ ~has_nan(m.X)

\* model.predict(frame)[0]
predict(m, frame) == ForestPredict(m, encoded(m, frame.rows[1]))

-----------------------------------------------------------------------------
(* Fitting *)

\* the fit of app.py on the encoded frame: None when it raised (except: return None)
fit_or_none(X, y, seed, nan_ok) ==
    IF has_nan(X.rows) /\ ~nan_ok THEN None ELSE forest_fit(X, y, seed)

\* app.py, train_prediction_model(df).  seed: what the unseeded forest drew;
\* nan_ok: whether the installed forest takes NaN features
train_prediction_model(d, seed, nan_ok) ==
    fit_or_none(get_dummies(features(d)), profits(d), seed, nan_ok)

\* the fit of Famy.py: None when it raised (st.error, return None)
pipeline_or_none(m, nan_ok) == IF has_nan(m.X) /\ ~nan_ok THEN None ELSE m

\* prepare_model asking for more than 2 crop types
prepare_model_three_crops(d, nan_ok) ==
    IF d = <<>> \/ Len(unique(crop_types(d))) <= 2 THEN None
    ELSE pipeline_or_none(pipeline_fit(raw_frame(features(d)), profits(d), random_state),
                          nan_ok)

\* Famy.py, prepare_model(df): None for an empty frame or fewer than 2 crop
\* types, None when the fit raised, else the fitted pipeline
prepare_model(d, nan_ok) ==
    IF d = <<>> \/ Len(unique(crop_types(d))) < 2 THEN None
    ELSE pipeline_or_none(pipeline_fit(raw_frame(features(d)), profits(d), random_state),
                          nan_ok)

\* the data guard that lets a single crop type through
enough_data_one_crop(d) == d # <<>> /\ Len(unique(crop_types(d))) > 0

\* app.py main: if not df.empty and len(df['crop_type'].unique()) > 1
enough_data(d) == d # <<>> /\ Len(unique(crop_types(d))) > 1

\* how often a script run calls its fitting function: app.py calls
\* train_prediction_model under the data guard, Famy.py calls prepare_model
\* unconditionally; neither is called anywhere else
fit_calls_of(v, d) == IF v = "app" THEN (IF enough_data(d) THEN 1 ELSE 0) ELSE 1

\* the model the AI tab of a script run works with
tab3_model(v, d, seed, nan_ok) ==
    IF v = "app"
    THEN IF enough_data(d) THEN train_prediction_model(d, seed, nan_ok) ELSE None
    ELSE prepare_model(d, nan_ok)

\* how the fit ended, as the page shows it: the "Need at least 2 ... crop types"
\* warning without a fit attempt, a fit that raised, or a model
tab3_fit_outcome(v, d, m) ==
    IF m.fitted THEN "trained"
    ELSE IF (v = "app" /\ ~enough_data(d))
            \/ (v = "Famy" /\ (d = <<>> \/ Len(unique(crop_types(d))) < 2))
         THEN "insufficient_data"
         ELSE "fit_failed"

\* the prediction form is on the page: app.py renders it whenever the data
\* guard passed (also with model = None), Famy.py only under `if model:`
form_rendered(v, d, m) == IF v = "app" THEN enough_data(d) ELSE m.fitted

\* the recommendation loop without its `if model:` guard
recommend_runs_unguarded(v, d, m) == v = "app" => enough_data(d)

\* the recommendation loop runs: `if model:` in both programs
recommend_runs(v, d, m) == m.fitted /\ (v = "app" => enough_data(d))

\* the columns of SELECT cc.*, fa.area_name
read_columns ==
    <<"cycle_id", "area_id", "crop_type", "start_date", "harvest_date", "seed_cost",
      "fertilizer_cost", "labor_cost", "equipment_cost", "other_costs", "total_revenue",
      "notes", "area_name">>

\* the columns the fit assigns on the DataFrame it is given:
\* df['duration_days'] = ..., df['total_cost'] = ..., df['profit'] = ...
\* (app.py whenever it is called, Famy.py once its guard has passed)
assigned_columns(v, d) ==
    IF v = "app"
    THEN IF enough_data(d) THEN <<"duration_days", "total_cost", "profit">> ELSE <<>>
    ELSE IF d = <<>> \/ Len(unique(crop_types(d))) < 2 THEN <<>>
         ELSE <<"duration", "total_cost", "profit">>

\* the columns of main()'s df after the fit: the DataFrame is passed by reference
columns_after_fit(v, d) == read_columns \o assigned_columns(v, d)

-----------------------------------------------------------------------------
(* Predicting and recommending *)

\* the frame handed to model.predict for a scenario
scenario_frame(v, crops, sc) ==
    IF v = "app" THEN app_scenario_frame(crops, sc) ELSE raw_frame(<<sc>>)

\* the frame of the "Predict Profit" click
request_frame(v, d, req) ==
    scenario_frame(v, unique(crop_types(d)),
                   scenario(req.area_id, req.crop_type, <<req.duration>>, <<req.total_cost>>))

\* the "Predict Profit" click: dropped when the form is not on the page;
\* None.predict raises AttributeError; both exceptions end in st.error
predict_outcome(v, d, m, req, frame) ==
    IF ~req.asked THEN "none"
    ELSE IF ~form_rendered(v, d, m) THEN "NoForm"
    ELSE IF ~m.fitted THEN "AttributeError"
    ELSE IF predict_raises(m, frame) THEN "ValueError"
    ELSE "ok"

\* the frames of the loop `for crop in df['crop_type'].unique()`, in loop order,
\* each for the canonical scenario of its crop
frames_for(v, crops, area, duration, cost) ==
    [k \in 1..Len(crops) |-> scenario_frame(v, crops, scenario(area, crops[k], duration, cost))]

\* the loop's frames built from the first record instead of the mode and the medians
test_frames_first_record(v, d) ==
    frames_for(v, unique(crop_types(d)), d[1].area_id,
               duration_days(d[1]), <<total_cost(d[1])>>)

test_frames(v, d) ==
    frames_for(v, unique(crop_types(d)), mode0(area_ids(d)),
               median(durations(d)), median(total_costs(d)))

\* the first iteration whose model.predict raises, 0 when none does
first_of(bad) == IF bad = {} THEN 0 ELSE CHOOSE k \in bad : \A j \in bad : k <= j

first_raise(m, frames) ==
    first_of({k \in 1..Len(frames) : predict_raises(m, frames[k])})

\* results with the entry of the first crop only
results_first_only(crops, m, frames) ==
    [k \in 1..1 |-> [Crop |-> crops[k], Predicted_Profit |-> predict(m, frames[k])]]

\* results, before sorting: one entry per crop, in loop order
results(crops, m, frames) ==
    [k \in 1..Len(crops) |-> [Crop |-> crops[k], Predicted_Profit |-> predict(m, frames[k])]]

\* the descending arrangements among a set of arrangements
descending(arrangements) ==
    {s \in arrangements :
        \A k \in 1..(Len(s) - 1) : s[k].Predicted_Profit >= s[k + 1].Predicted_Profit}

\* sort_values with ascending=True
sort_values_ascending(res) ==
    {s \in {[k \in 1..Len(res) |-> res[p[k]]] : p \in Permutations(1..Len(res))} :
        \A k \in 1..(Len(s) - 1) : s[k].Predicted_Profit <= s[k + 1].Predicted_Profit}

\* DataFrame.sort_values('Predicted Profit', ascending=False) with the default
\* kind='quicksort': every descending arrangement of the rows
sort_values(res) ==
    descending({[k \in 1..Len(res) |-> res[p[k]]] : p \in Permutations(1..Len(res))})

\* what the AI tab of app.py writes on the page, by the leading words of the
\* text: the else branch of the data guard; the try/except of the click; the
\* else branch of `if model:`; a ValueError of the recommendation loop is not
\* caught and Streamlit shows its traceback.  A fit that raised shows nothing.
app_messages(d, m, po, bad) ==
    IF ~enough_data(d) THEN {"Need at least 2 different crop types"}
    ELSE (IF po = "ok" THEN {"Predicted Profit"} ELSE {})
         \cup (IF po \in {"AttributeError", "ValueError"} THEN {"Prediction failed"} ELSE {})
         \cup (IF ~m.fitted THEN {"Need more data to generate recommendations"} ELSE {})
         \cup (IF m.fitted /\ bad # 0 THEN {"ValueError traceback"} ELSE {})

\* what the AI tab of Famy.py writes: st.error of prepare_model when the fit
\* raised; the else branch of `if model:`; the try/except of the click and of
\* the recommendation loop
Famy_messages(d, m, po, bad) ==
    (IF ~m.fitted /\ ~(d = <<>> \/ Len(unique(crop_types(d))) < 2)
     THEN {"Model preparation failed"} ELSE {})
    \cup (IF ~m.fitted THEN {"Need at least 2 crop types"} ELSE {})
    \cup (IF po = "ok" THEN {"Predicted Profit"} ELSE {})
    \cup (IF po = "ValueError" THEN {"Prediction failed"} ELSE {})
    \cup (IF m.fitted /\ bad # 0 THEN {"Recommendation failed"} ELSE {})

tab3_messages(v, d, m, po, bad) ==
    IF v = "app" THEN app_messages(d, m, po, bad) ELSE Famy_messages(d, m, po, bad)

-----------------------------------------------------------------------------
(* The AI tab of one script run *)

\* what the page of the run shows, and what reached the estimator
tab3_show(d, m, req, frame, po, frames, bad) ==
    /\ UNCHANGED runs
    /\ fit_calls' = fit_calls_of(variant, d)
    /\ df' = d
    /\ df_columns' = columns_after_fit(variant, d)
    /\ messages' = tab3_messages(variant, d, m, po, bad)
    /\ model' = m
    /\ fit_outcome' = tab3_fit_outcome(variant, d, m)
    /\ request' = req
    /\ pred_outcome' = po
    /\ prediction' = IF po = "ok" THEN <<predict(m, frame)>> ELSE NaN
    /\ rec_outcome' = IF ~recommend_runs(variant, d, m) THEN "NoModel"
                      ELSE IF bad = 0 THEN "ok" ELSE "ValueError"
    /\ predict_calls' = (IF po \in {"ok", "ValueError"} THEN <<frame>> ELSE <<>>)
                        \o (IF bad = 0 THEN frames ELSE SubSeq(frames, 1, bad))
    /\ evaluated' = (IF po = "ok" THEN <<frame>> ELSE <<>>)
                    \o (IF bad = 0 THEN frames ELSE SubSeq(frames, 1, bad - 1))
    /\ IF recommend_runs(variant, d, m) /\ bad = 0
       THEN recommendation' \in sort_values(results(unique(crop_types(d)), m, frames))
       ELSE recommendation' = <<>>

\* the prediction form, then the recommendation loop; an exception of the loop
\* ends it (app.py: it ends the script run; Famy.py: st.error)
tab3_predict(d, m, req, frame, frames) ==
    tab3_show(d, m, req, frame, predict_outcome(variant, d, m, req, frame),
              frames, first_raise(m, frames))

\* the frames of the run: of the click, when the form takes it, and of the loop
tab3_frames(d, m, req) ==
    tab3_predict(d, m, req,
                 IF req.asked /\ form_rendered(variant, d, m)
                 THEN request_frame(variant, d, req) ELSE [columns |-> <<>>, rows |-> <<>>],
                 IF recommend_runs(variant, d, m) THEN test_frames(variant, d) ELSE <<>>)

\* the run keeps the model fitted on the records of the run before it
tab3_fit_stale(d, req, seed, nan_ok) ==
    tab3_frames(d, tab3_model(variant, df, seed, nan_ok), req)

\* model = train_prediction_model(df) / prepare_model(df)
tab3_fit(d, req, seed, nan_ok) == tab3_frames(d, tab3_model(variant, d, seed, nan_ok), req)

\* df = pd.read_sql(...), over the store as the run left it
tab3(req, seed, nan_ok) == tab3_fit(read_sql(farm_areas', crop_cycles'), req, seed, nan_ok)

\* what the forest of a run can draw: app.py sets no random_state, Famy.py sets it
drawn_seeds(v) == IF v = "app" THEN 1..NumSeeds ELSE {random_state}

AITab(req) == \E seed \in drawn_seeds(variant) : tab3(req, seed, takes_nan)

-----------------------------------------------------------------------------
(* The script runs *)

Init ==
    /\ variant \in Variants
    /\ takes_nan \in BOOLEAN
    /\ farm_areas = <<>>
    /\ crop_cycles = <<>>
    /\ df = <<>>
    /\ fit_outcome = "none"
    /\ model = None
    /\ request = NoRequest
    /\ pred_outcome = "none"
    /\ prediction = NaN
    /\ predict_calls = <<>>
    /\ evaluated = <<>>
    /\ recommendation = <<>>
    /\ rec_outcome = "none"
    /\ df_columns = read_columns
    /\ messages = {}
    /\ runs = [s \in 1..NumSessions |-> IdleRun]
    /\ fit_calls = 0
    /\ area_seq = 0
    /\ area_form = NoAreaForm

\* INSERT INTO farm_areas without the UNIQUE constraint on area_name
insert_area_unchecked(areas, name) ==
    Append(areas, [area_id |-> area_seq + 1, area_name |-> name])

\* INSERT INTO farm_areas: the UNIQUE name makes a duplicate raise
\* IntegrityError, which leaves the table as it was; a new row gets the next
\* area_id of the AUTOINCREMENT sequence
insert_area(areas, name) ==
    IF \E i \in 1..Len(areas) : areas[i].area_name = name
    THEN areas
    ELSE Append(areas, [area_id |-> area_seq + 1, area_name |-> name])

\* the form of an add and its text: st.success, or st.error under
\* except sqlite3.IntegrityError
added_form(areas, name, success) ==
    [kind |-> "add", area_id |-> 0, name |-> name,
     text |-> IF \E i \in 1..Len(areas) : areas[i].area_name = name
              THEN "Area name already exists" ELSE success]

\* "Save Area"
SaveArea ==
    \E name \in AreaNames :
        /\ farm_areas' = insert_area(farm_areas, name)
        /\ area_seq' = area_seq + (Len(farm_areas') - Len(farm_areas))
        /\ area_form' = added_form(farm_areas, name, "Farm area saved!")
        /\ UNCHANGED <<variant, takes_nan, crop_cycles>>
        /\ AITab(NoRequest)

\* "Save Crop Cycle": INSERT INTO crop_cycles for one of the listed areas
SaveCropCycle ==
    \E a \in 1..Len(farm_areas), crop \in Crops, start \in StartDates,
       harvest \in HarvestDates, seed_cost \in SeedCosts, other \in OtherCostInputs,
       revenue \in Revenues :
        /\ Len(crop_cycles) < MaxCycles
        /\ crop_cycles' = Append(crop_cycles,
              [area_id |-> farm_areas[a].area_id, crop_type |-> crop,
               start_date |-> start, harvest_date |-> harvest,
               seed_cost |-> seed_cost, fertilizer_cost |-> other, labor_cost |-> other,
               equipment_cost |-> other, other_costs |-> other, total_revenue |-> revenue])
        /\ UNCHANGED <<variant, takes_nan, farm_areas, area_seq>>
        /\ area_form' = NoAreaForm
        /\ AITab(NoRequest)

\* the script runs again with nothing submitted (a page load, another widget)
Refresh ==
    /\ UNCHANGED <<variant, takes_nan, farm_areas, crop_cycles, area_seq>>
    /\ area_form' = NoAreaForm
    /\ AITab(NoRequest)

\* "Predict Profit": the form of the page shown is submitted; the number inputs
\* hold no value under their min_value; the selectboxes offer the areas and crop
\* types of the records
PredictProfit ==
    \E pred_area \in Range(area_ids(read_sql(farm_areas, crop_cycles))),
       pred_crop \in Range(crop_types(read_sql(farm_areas, crop_cycles))),
       pred_duration \in DurationInputs, pred_cost \in CostInputs :
        /\ form_rendered(variant, df, model)
        /\ pred_duration >= min_duration
        /\ pred_cost >= min_cost
        /\ UNCHANGED <<variant, takes_nan, farm_areas, crop_cycles, area_seq>>
        /\ area_form' = NoAreaForm
        /\ AITab([asked |-> TRUE, area_id |-> pred_area, crop_type |-> pred_crop,
                  duration |-> pred_duration, total_cost |-> pred_cost])

\* farmlit.py, "Delete Record": DELETE FROM crop_cycles WHERE cycle_id = ?
\* for a row of the joined list (another program on the same database: no AI
\* tab runs)
DeleteRecord ==
    \E i \in 1..Len(crop_cycles) :
        /\ \E a \in 1..Len(farm_areas) : farm_areas[a].area_id = crop_cycles[i].area_id
        /\ area_form' = NoAreaForm
        /\ crop_cycles' = [k \in 1..(Len(crop_cycles) - 1) |->
                              IF k < i THEN crop_cycles[k] ELSE crop_cycles[k + 1]]
        /\ UNCHANGED <<variant, takes_nan, farm_areas, runs, area_seq>>
        /\ UNCHANGED session

Next == SaveArea \/ SaveCropCycle \/ Refresh \/ PredictProfit \/ DeleteRecord

Spec == Init /\ [][Next]_vars

-----------------------------------------------------------------------------
(* Script runs of several browser sessions, interleaved.  Streamlit runs   *)
(* main() of each session in a thread of its own; `df` and `model` are     *)
(* locals of that call, and the runs share the database only.  A run is    *)
(* followed here from the read of the AI tab to its ranking; the commits   *)
(* of the forms are steps of their own.                                    *)

\* RandomForestRegressor(...) / Pipeline([...]) before fit: nothing learned
\* yet; seed: what its random state will draw
unfitted(v, seed) ==
    [fitted |-> FALSE, pipeline |-> (v = "Famy"), feature_names_in |-> <<>>,
     categories |-> <<>>, X |-> <<>>, y |-> <<>>, seed |-> seed]

\* the estimator a run reads when its loop calls model.predict: another run's
\* estimator under construction when there is one
run_model_shared(rs, s) ==
    IF \E t \in DOMAIN rs : t # s /\ rs[t].pc = "fitting"
    THEN rs[CHOOSE t \in DOMAIN rs : t # s /\ rs[t].pc = "fitting"].building
    ELSE rs[s].model

\* the estimator a run reads when its loop calls model.predict: its own local
run_model(rs, s) == rs[s].model

\* conn.commit() of "Save Area"
CommitArea ==
    \E name \in AreaNames :
        /\ farm_areas' = insert_area(farm_areas, name)
        /\ area_seq' = area_seq + (Len(farm_areas') - Len(farm_areas))
        /\ UNCHANGED <<variant, takes_nan, crop_cycles, runs, area_form>>
        /\ UNCHANGED session

\* conn.commit() of "Save Crop Cycle" (one cost and one harvest date tried)
CommitCropCycle ==
    \E a \in 1..Len(farm_areas), crop \in Crops, start \in StartDates,
       other \in OtherCostInputs, revenue \in Revenues :
        /\ Len(crop_cycles) < MaxCycles
        /\ crop_cycles' = Append(crop_cycles,
              [area_id |-> farm_areas[a].area_id, crop_type |-> crop,
               start_date |-> start, harvest_date |-> <<start + 2>>,
               seed_cost |-> other, fertilizer_cost |-> other, labor_cost |-> other,
               equipment_cost |-> other, other_costs |-> other, total_revenue |-> revenue])
        /\ UNCHANGED <<variant, takes_nan, farm_areas, runs, area_seq, area_form>>
        /\ UNCHANGED session

\* conn.commit() of farmlit.py's "Delete Record"
CommitDelete ==
    \E i \in 1..Len(crop_cycles) :
        /\ \E a \in 1..Len(farm_areas) : farm_areas[a].area_id = crop_cycles[i].area_id
        /\ crop_cycles' = [k \in 1..(Len(crop_cycles) - 1) |->
                              IF k < i THEN crop_cycles[k] ELSE crop_cycles[k + 1]]
        /\ UNCHANGED <<variant, takes_nan, farm_areas, runs, area_seq, area_form>>
        /\ UNCHANGED session

\* df = pd.read_sql(...) of the AI tab
RunRead(s) ==
    /\ runs[s].pc = "idle"
    /\ runs' = [runs EXCEPT ![s] = [IdleRun EXCEPT !.pc = "read",
                                                  !.df = read_sql(farm_areas, crop_cycles)]]
    /\ UNCHANGED <<variant, takes_nan, farm_areas, crop_cycles, area_seq, area_form>>
    /\ UNCHANGED session

\* the data guard fails: no fit, model is None
RunNoFit(s) ==
    /\ runs[s].pc = "read"
    /\ ~enough_data(runs[s].df)
    /\ runs' = [runs EXCEPT ![s].pc = "fitted", ![s].model = None]
    /\ UNCHANGED <<variant, takes_nan, farm_areas, crop_cycles, area_seq, area_form>>
    /\ UNCHANGED session

\* inside the fitting function: the estimator is created
RunCreate(s) ==
    /\ runs[s].pc = "read"
    /\ enough_data(runs[s].df)
    /\ \E seed \in drawn_seeds(variant) :
          runs' = [runs EXCEPT ![s].pc = "fitting", ![s].building = unfitted(variant, seed)]
    /\ UNCHANGED <<variant, takes_nan, farm_areas, crop_cycles, area_seq, area_form>>
    /\ UNCHANGED session

\* model.fit(X, y); return model; main()'s `model` is assigned the result
RunFit(s) ==
    /\ runs[s].pc = "fitting"
    /\ runs' = [runs EXCEPT ![s].pc = "fitted", ![s].building = None,
                              ![s].model = tab3_model(variant, runs[s].df,
                                                      runs[s].building.seed, takes_nan)]
    /\ UNCHANGED <<variant, takes_nan, farm_areas, crop_cycles, area_seq, area_form>>
    /\ UNCHANGED session

\* the recommendation loop reads `model`
RunRecommend(s) ==
    /\ runs[s].pc = "fitted"
    /\ runs' = [runs EXCEPT ![s].pc = "done", ![s].used = run_model(runs, s)]
    /\ UNCHANGED <<variant, takes_nan, farm_areas, crop_cycles, area_seq, area_form>>
    /\ UNCHANGED session

\* main() returns
RunEnd(s) ==
    /\ runs[s].pc = "done"
    /\ runs' = [runs EXCEPT ![s] = IdleRun]
    /\ UNCHANGED <<variant, takes_nan, farm_areas, crop_cycles, area_seq, area_form>>
    /\ UNCHANGED session

NextConcurrent ==
    \/ CommitArea
    \/ CommitCropCycle
    \/ CommitDelete
    \/ \E s \in 1..NumSessions :
          RunRead(s) \/ RunNoFit(s) \/ RunCreate(s) \/ RunFit(s) \/ RunRecommend(s) \/ RunEnd(s)

SpecConcurrent == Init /\ [][NextConcurrent]_vars

-----------------------------------------------------------------------------
(* farmlit.py: the editing program on the same database.  Each submit      *)
(* button of its forms runs one statement and commits it; no AI tab runs.  *)

\* the name is held by a row other than the one with this area_id
name_taken(areas, id, name) ==
    \E j \in 1..Len(areas) : areas[j].area_name = name /\ areas[j].area_id # id

\* UPDATE farm_areas SET area_name = ? WHERE area_id = ?: the UNIQUE name
\* makes a name another row holds raise IntegrityError, which leaves the table
\* as it was
update_area(areas, i, name) ==
    IF name_taken(areas, areas[i].area_id, name)
    THEN areas
    ELSE [areas EXCEPT ![i].area_name = name]

\* DELETE FROM ... WHERE <primary key> = ? for the row at position i
delete_row(rows, i) ==
    [k \in 1..(Len(rows) - 1) |-> IF k < i THEN rows[k] ELSE rows[k + 1]]

\* the positions of the crop cycles the JOIN of the edit list returns
joined_rows(areas, cycles) ==
    {i \in 1..Len(cycles) : \E a \in 1..Len(areas) : areas[a].area_id = cycles[i].area_id}

\* "Add Area": a blank name is refused by the form, a name in use by the table
AddArea ==
    \E new_name \in AreaNameInputs :
        /\ new_name = "" \/ name_taken(farm_areas, 0, new_name) \/ area_seq < MaxAreaIds
        /\ farm_areas' = IF new_name = "" THEN farm_areas
                         ELSE insert_area(farm_areas, new_name)
        /\ area_seq' = area_seq + (Len(farm_areas') - Len(farm_areas))
        /\ area_form' = IF new_name = ""
                        THEN [kind |-> "add", area_id |-> 0, name |-> new_name,
                              text |-> "Please fill required fields"]
                        ELSE added_form(farm_areas, new_name, "Area added successfully!")
        /\ UNCHANGED <<variant, takes_nan, crop_cycles, runs>>
        /\ UNCHANGED session

\* "Save Changes" of an area's edit form (the name input is not checked for
\* being blank)
SaveAreaChanges ==
    \E i \in 1..Len(farm_areas), edit_name \in AreaNameInputs :
        /\ farm_areas' = update_area(farm_areas, i, edit_name)
        /\ area_form' = [kind |-> "rename", area_id |-> farm_areas[i].area_id,
                         name |-> edit_name,
                         text |-> IF name_taken(farm_areas, farm_areas[i].area_id, edit_name)
                                  THEN "Area name already exists" ELSE "Changes saved!"]
        /\ UNCHANGED <<variant, takes_nan, crop_cycles, runs, area_seq>>
        /\ UNCHANGED session

\* "Delete Area": DELETE FROM farm_areas WHERE area_id = ?.  The connection
\* never turns foreign keys on, so the statement touches no other table
DeleteArea ==
    \E i \in 1..Len(farm_areas) :
        /\ farm_areas' = delete_row(farm_areas, i)
        /\ area_form' = [kind |-> "delete", area_id |-> farm_areas[i].area_id,
                         name |-> farm_areas[i].area_name, text |-> "Area deleted!"]
        /\ UNCHANGED <<variant, takes_nan, crop_cycles, runs, area_seq>>
        /\ UNCHANGED session

\* "Add Crop Cycle": the form is there when get_areas_df finds an area; the
\* harvest date input holds a date
AddCropCycle ==
    \E a \in 1..Len(farm_areas), crop \in Crops, start \in StartDates,
       harvest \in HarvestDates \ {NULL}, other \in OtherCostInputs,
       revenue \in Revenues :
        /\ Len(crop_cycles) < MaxCycles
        /\ crop_cycles' = Append(crop_cycles,
              [area_id |-> farm_areas[a].area_id, crop_type |-> crop,
               start_date |-> start, harvest_date |-> harvest,
               seed_cost |-> other, fertilizer_cost |-> other, labor_cost |-> other,
               equipment_cost |-> other, other_costs |-> other, total_revenue |-> revenue])
        /\ area_form' = NoAreaForm
        /\ UNCHANGED <<variant, takes_nan, farm_areas, runs, area_seq>>
        /\ UNCHANGED session

\* "Save Changes" of a crop cycle's edit form: a row of the joined list, the
\* area chosen among the areas there are (area and crop type tried)
SaveCycleChanges ==
    \E i \in joined_rows(farm_areas, crop_cycles), a \in 1..Len(farm_areas),
       edit_crop \in Crops :
        /\ crop_cycles' = [crop_cycles EXCEPT ![i].area_id = farm_areas[a].area_id,
                                              ![i].crop_type = edit_crop]
        /\ area_form' = NoAreaForm
        /\ UNCHANGED <<variant, takes_nan, farm_areas, runs, area_seq>>
        /\ UNCHANGED session

NextStore ==
    \/ AddArea
    \/ SaveAreaChanges
    \/ DeleteArea
    \/ AddCropCycle
    \/ SaveCycleChanges
    \/ DeleteRecord

SpecStore == Init /\ [][NextStore]_vars

-----------------------------------------------------------------------------
(* Properties *)

\* the distinct crop types of the records the last run read
df_crops == unique(crop_types(df))

\* every record of the last run has a harvest date
all_harvested == \A i \in 1..Len(df) : df[i].harvest_date # NULL

\* the cell of a one-row frame under a column name
cell(frame, col) ==
    frame.rows[1][CHOOSE k \in 1..Len(frame.columns) : frame.columns[k] = col]

\* the duration and the total cost of the scenario a frame was built from
frame_duration(frame) ==
    IF "duration_days" \in Range(frame.columns)
    THEN cell(frame, "duration_days") ELSE cell(frame, "duration")
frame_total_cost(frame) == cell(frame, "total_cost")

\* the place of a crop type in the order of first appearance in the records
first_observed(crop) == CHOOSE k \in 1..Len(df_crops) : df_crops[k] = crop

\* C1: while no model is fitted (nothing fitted yet, or the fit of the run
\* failed or was refused), a prediction request ends in the not-trained outcome
\* (the form is left out, or None.predict raises) and nothing reaches the
\* estimator: no frame is handed to predict, no profit and no ranking is shown.
C1_NotTrainedNeverPredicts ==
    ~model.fitted =>
        /\ predict_calls = <<>>
        /\ evaluated = <<>>
        /\ prediction = NaN
        /\ recommendation = <<>>
        /\ request.asked => pred_outcome \in {"NoForm", "AttributeError"}

C1_Witness ==
    /\ ~model.fitted
    /\ fit_outcome = "fit_failed"
    /\ request.asked
    /\ pred_outcome = "AttributeError"

\* C2: a run whose records hold exactly one distinct crop type ends its fit
\* with the insufficient-data outcome and no model, however many records there
\* are and whether or not they have a harvest date.
C2_OneCropInsufficient ==
    Len(df_crops) = 1 => fit_outcome = "insufficient_data" /\ model = None

C2_Witness ==
    /\ Len(df_crops) = 1
    /\ Len(df) > 1
    /\ \E i \in 1..Len(df) : df[i].harvest_date = NULL
    /\ \E i \in 1..Len(df) : df[i].harvest_date # NULL
    /\ fit_outcome = "insufficient_data"

\* C3: on records that all have a harvest date and hold at least 2 distinct
\* crop types the fit leaves a trained model, and a prediction asked for in
\* that run does not end in the not-trained outcome.
C3_ValidSetTrains ==
    (all_harvested /\ Len(df_crops) >= 2) =>
        /\ model.fitted
        /\ fit_outcome = "trained"
        /\ request.asked => pred_outcome \notin {"NoForm", "AttributeError"}

C3_Witness ==
    /\ all_harvested
    /\ Len(df_crops) >= 2
    /\ request.asked
    /\ pred_outcome = "ok"
    /\ model.fitted

\* C4: every frame handed to the estimator for a prediction or recommendation
\* has the columns of the table the estimator was fitted on, in the same order.
C4_ScenarioColumnsAsFitted ==
    \A k \in 1..Len(predict_calls) : predict_calls[k].columns = model.feature_names_in

\* C5: the ranking shown is sorted by predicted profit, descending: each entry's
\* predicted profit is at least that of the entry after it.
C5_RankingDescending ==
    \A k \in 1..(Len(recommendation) - 1) :
        recommendation[k].Predicted_Profit >= recommendation[k + 1].Predicted_Profit

C5_Witness ==
    /\ rec_outcome = "ok"
    /\ Len(recommendation) >= 2
    /\ recommendation[1].Predicted_Profit > recommendation[2].Predicted_Profit
    /\ first_observed(recommendation[1].Crop) > first_observed(recommendation[2].Crop)

\* C6: of two crop types with equal predicted profit, the one first observed in
\* the records comes first in the ranking.
C6_TiesInFirstObservedOrder ==
    \A j, k \in 1..Len(recommendation) :
        (j < k /\ recommendation[j].Predicted_Profit = recommendation[k].Predicted_Profit)
            => first_observed(recommendation[j].Crop) < first_observed(recommendation[k].Crop)

\* C7: a fit that fails while a model is trained leaves that model in place,
\* unchanged.
C7_FailedFitKeepsModel ==
    [][(model.fitted /\ fit_outcome' # "trained") => model' = model]_vars

\* C8: once a fit has succeeded the model never returns to the untrained state.
C8_TrainedStaysTrained == [][model.fitted => model'.fitted]_vars

\* C9: two runs in a row that fit the same records and predict the same
\* scenario show the same predicted profit.
C9_SameRecordsSamePrediction ==
    [][(/\ df' = df
        /\ request.asked /\ request' = request
        /\ pred_outcome = "ok" /\ pred_outcome' = "ok") => prediction' = prediction]_vars

\* C10: no scenario with a negative duration or a negative total cost is
\* evaluated by the estimator, whether it comes from the prediction form or from
\* the medians of the recommendation loop.
C10_NoNegativeScenarioEvaluated ==
    \A k \in 1..Len(evaluated) :
        /\ IsNaN(frame_duration(evaluated[k])) \/ Val(frame_duration(evaluated[k])) >= 0
        /\ IsNaN(frame_total_cost(evaluated[k])) \/ Val(frame_total_cost(evaluated[k])) >= 0

-----------------------------------------------------------------------------
(* The table the estimator was fitted on *)

\* the names of the columns of the fitted table m.X, in its order: the
\* get_dummies columns (app.py), or the output of the ColumnTransformer: the
\* encoder's indicators, then the passed-through columns (Famy.py)
table_columns(m) ==
    IF m.pipeline
    THEN [k \in 1..Len(m.categories) |-> "crop_type_" \o m.categories[k]]
         \o <<"area_id", "duration", "total_cost">>
    ELSE m.feature_names_in

\* the name of the duration column: 'duration_days' in app.py, 'duration' in Famy.py
duration_column(m) == IF m.pipeline THEN "duration" ELSE "duration_days"

\* the cell of row i of the fitted table under a column name
table_cell(m, i, col) ==
    m.X[i][CHOOSE k \in 1..Len(table_columns(m)) : table_columns(m)[k] = col]

\* the indicator columns of the fitted table
indicator_columns(m) ==
    Range(table_columns(m)) \ {"area_id", duration_column(m), "total_cost"}

C12_NoUnharvestedRowFitted ==
    model.fitted =>
        \A i \in 1..Len(model.X) :
            /\ df[i].harvest_date # NULL
            /\ ~IsNaN(table_cell(model, i, duration_column(model)))

\* C13: every duration the estimator is fitted on is at least 0.
C13_NoNegativeDurationFitted ==
    model.fitted =>
        \A i \in 1..Len(model.X) :
            \/ IsNaN(table_cell(model, i, duration_column(model)))
            \/ Val(table_cell(model, i, duration_column(model))) >= 0

\* C14: when no record read has a harvest date, the fit does not leave a
\* trained model, even with 2 or more distinct crop types among the records.
C14_NoUsableRowsNoModel ==
    (Len(df_crops) >= 2 /\ \A i \in 1..Len(df) : df[i].harvest_date = NULL)
        => ~model.fitted

-----------------------------------------------------------------------------
(* The rows handed to the estimator *)

\* the crop type of the scenario of each frame of predict_calls: the click's,
\* then the crops of the recommendation loop in loop order
call_crops ==
    (IF pred_outcome \in {"ok", "ValueError"} THEN <<request.crop_type>> ELSE <<>>)
    \o SubSeq(df_crops, 1,
              Len(predict_calls) - (IF pred_outcome \in {"ok", "ValueError"} THEN 1 ELSE 0))

\* the columns of a scenario row as the forest gets it: the frame's own
\* (app.py), or those of the pipeline's ColumnTransformer (Famy.py)
row_columns(m, frame) == IF m.pipeline THEN table_columns(m) ELSE frame.columns

\* the cell of that row under a column name
row_cell(m, frame, col) ==
    encoded(m, frame.rows[1])[CHOOSE k \in 1..Len(row_columns(m, frame)) :
                                  row_columns(m, frame)[k] = col]

click_calls == IF pred_outcome \in {"ok", "ValueError"} THEN 1 ELSE 0

\* x is the median of the values v: NaN of none; else the mean of two values
\* (one value counted twice for an odd count) with no value strictly between
\* them, at most half of the values under it and at most half over it
is_median(x, v) ==
    IF v = <<>> THEN IsNaN(x)
    ELSE /\ ~IsNaN(x)
         /\ 2 * Cardinality({k \in 1..Len(v) : v[k] < Val(x)}) <= Len(v)
         /\ 2 * Cardinality({k \in 1..Len(v) : v[k] > Val(x)}) <= Len(v)
         /\ \E i, j \in 1..Len(v) :
               /\ (i = j) <=> (Len(v) % 2 = 1)
               /\ 2 * Val(x) = v[i] + v[j]
               /\ v[i] <= v[j]
               /\ ~\E k \in 1..Len(v) : v[i] < v[k] /\ v[k] < v[j]

\* a is a most frequent area of the records d
is_most_frequent(a, d) ==
    \A b \in Range(area_ids(d)) :
        Cardinality({i \in 1..Len(d) : d[i].area_id = a})
            >= Cardinality({i \in 1..Len(d) : d[i].area_id = b})

C17_ReadersSeeCompleteModel ==
    \A s \in 1..NumSessions :
        runs[s].pc = "done" =>
            \E seed \in drawn_seeds(variant) :
                runs[s].used = tab3_model(variant, runs[s].df, seed, takes_nan)

\* a run evaluates its model while the other run is fitting on other records
C17_Witness ==
    \E s, t \in 1..NumSessions :
        /\ runs[s].pc = "done"
        /\ runs[s].used.fitted
        /\ runs[t].pc = "fitting"
        /\ runs[t].df # runs[s].df

\* C18: a script run leaves the records it read as they were: the DataFrame
\* has the columns that were read, no more and no less.
C18_RecordsNotMutated == df_columns = read_columns

\* C19: a fit that raised is reported as such, and not as insufficient data:
\* the page names the failed fit and does not show the "Need at least 2 ...
\* crop types" warning.
C19_FailedFitReported ==
    fit_outcome = "fit_failed" =>
        /\ "Model preparation failed" \in messages
        /\ "Need at least 2 crop types" \notin messages
        /\ "Need at least 2 different crop types" \notin messages

\* the five cost fields of a record, added up
five_costs(r) ==
    r.seed_cost + r.fertilizer_cost + r.labor_cost + r.equipment_cost + r.other_costs

-----------------------------------------------------------------------------
(* The ranking *)

\* the crop types whose indicator is 1 in a scenario row
frame_crops(m, frame) ==
    {c \in Crops : /\ ("crop_type_" \o c) \in Range(row_columns(m, frame))
                   /\ row_cell(m, frame, "crop_type_" \o c) = <<1>>}

C22_FitOnRecordsOfSameRun ==
    /\ \E seed \in drawn_seeds(variant) :
          model = tab3_model(variant, df, seed, takes_nan)
    /\ fit_calls <= 1
    /\ predict_calls # <<>> => fit_calls = 1
    /\ click_calls = 1 => predict_calls[1] = request_frame(variant, df, request)
    /\ pred_outcome = "ok" =>
          prediction = <<predict(model, request_frame(variant, df, request))>>
    /\ \A k \in (click_calls + 1)..Len(predict_calls) :
          predict_calls[k] = test_frames(variant, df)[k - click_calls]

\* a run that fitted on the records it read, all that are stored, and
\* answered a click and the loop on that model
C22_Witness ==
    /\ model.fitted
    /\ fit_calls = 1
    /\ pred_outcome = "ok"
    /\ Len(evaluated) >= 2
    /\ crop_cycles = df

C24_EveryCycleHasItsArea ==
    /\ \A i \in 1..Len(crop_cycles) :
          \E a \in 1..Len(farm_areas) : farm_areas[a].area_id = crop_cycles[i].area_id
    /\ Len(read_sql(farm_areas, crop_cycles)) = Len(crop_cycles)

====
